---- MODULE Spec2Model ----
(***************************************************************************)
(* Loan lifecycle and inventory consistency of the library system.         *)
(*                                                                         *)
(* The repository holds two implementations of the loan operations:        *)
(*   - schema.sql: the MySQL schema with CHECK constraints, the trigger    *)
(*     UpdateOverdueLoans and the stored procedures ProcessLoan and        *)
(*     ReturnBook;                                                         *)
(*   - server/storage.ts and the REST routes: drizzle queries over the     *)
(*     tables that shared/schema.ts declares (no CHECK constraint, no      *)
(*     trigger), written against the PostgreSQL dialect (.returning(),     *)
(*     INTERVAL '14 days').                                                *)
(* The variable schema says which of the two a run is about.               *)
(*                                                                         *)
(* Dates are day numbers: day d is 2024-01-d, and a run is the requests of  *)
(* one day, 2024-01-15. Money is in cents.                                 *)
(***************************************************************************)
EXTENDS Integers, Sequences, FiniteSets, TLC

VARIABLES schema, today, users, books, loans, procs, sessions, audit_log

vars == <<schema, today, users, books, loans, procs, sessions, audit_log>>

----------------------------------------------------------------------------
(* Bounds of the model *)

MaxLoans == 2
MaxProcs == 2
NumBooks == 1
MaxCopies == 2
MaxDueDate == 30
MaxAvailable == 3
MaxSessions == 2
MaxToday == 23
MaxAudit == 7

(* Program constants *)

StartDay == 15
StaleDays == 5
DefaultLoanDays == 14
RenewDays == 14
MaxRenewals == 2
FineCentsPerDay == 50
SessionDays == 7

NULL == -1
NoBook == 0
NoUser == "nobody"

UserIds == {"p1", "p2", "s1"}

(* The ids a row of users may have: those of the accounts there are from the
   start, and one that no account has until a row is inserted under it. *)
UserSlots == UserIds \cup {NoUser}
BookIds == 1..NumBooks
ProcIds == 1..MaxProcs

----------------------------------------------------------------------------
(* Helpers *)

LoanIds == 1..Len(loans)

(* A book id names a row of books once it has been given out and unless the
   row has been deleted; a loan id that has been given out names a row of
   loans unless the row went with its book (ON DELETE CASCADE). Ids are never
   given out twice. *)
BookExists(b) == b \in BookIds /\ books[b].status \notin {"unused", "deleted"}
UserExists(u) == u \in UserSlots /\ users[u].role # "none"
LoanExists(l) == l \in LoanIds /\ loans[l].status # "deleted"

(* The value of a JavaScript property that an object does not have. *)
Undefined == "undefined"

(* obj.name in JavaScript. *)
Prop(obj, name) == IF name \in DOMAIN obj THEN obj[name] ELSE Undefined

(* a >= n in JavaScript for a number n: undefined converts to NaN, and every
   comparison with NaN is false. *)
JsGte(a, n) == IF a = Undefined THEN FALSE ELSE a >= n

(* The loans table of shared/schema.ts: the property each column is declared
   under, mapped to the column it names. *)
LoanColumns ==
    [userId |-> "user_id", bookId |-> "book_id", loanDate |-> "loan_date",
     dueDate |-> "due_date", returnDate |-> "return_date",
     renewCount |-> "renew_count", status |-> "status", fine |-> "fine"]

(* A row of loans as drizzle selects it: one property per declared column. *)
LoanObject(row) == [k \in DOMAIN LoanColumns |-> row[LoanColumns[k]]]

(* db.update(loans).set(values): drizzle builds the SET clause from the
   table's columns and takes, for each, the value given under the column's
   property name; a key of values that names no column is left out. *)
UpdateSetLoan(row, values) ==
    [c \in DOMAIN row |->
        LET keys == {k \in DOMAIN LoanColumns : LoanColumns[k] = c /\ k \in DOMAIN values}
        IN IF keys = {} THEN row[c] ELSE values[CHOOSE k \in keys : TRUE]]

(* db.insert(loans).values(loan): the columns given, and the column defaults
   (renew_count 0, status active, fine 0.00, return_date NULL). *)
InsertLoanRow(loan) ==
    UpdateSetLoan([user_id |-> NoUser, book_id |-> NoBook, loan_date |-> NULL,
                   due_date |-> NULL, return_date |-> NULL, renew_count |-> 0,
                   status |-> "active", fine |-> 0], loan)

(* SHA2(str, 256), as far as the procedures depend on it: a digest that
   differs for different strings. *)
SHA2(str, hash_length) == [sha |-> hash_length, of |-> str]

CONCAT(a, b) == <<a, b>>

(* Function EncryptPassword of schema.sql. *)
EncryptPassword(plain_password) == SHA2(CONCAT(plain_password, "library_salt_2024"), 256)

(* The password of the sample users of schema.sql. *)
SeedPassword == "password123"

(* DATEDIFF(a, b): whole days from b to a. *)
DATEDIFF(a, b) == a - b

(* ReturnBook's fine: a comparison with NULL is not true. *)
ComputeFine(v_return_date, v_due_date) ==
    IF v_due_date # NULL /\ v_return_date > v_due_date
    THEN DATEDIFF(v_return_date, v_due_date) * FineCentsPerDay
    ELSE 0

(* The trigger without its test of NEW.status: every row past its due date
   is stored as overdue. *)
UpdateOverdueLoans_AnyStatus(new, curdate) ==
    IF new.due_date < curdate
    THEN [new EXCEPT !.status = "overdue"]
    ELSE new

(* Trigger UpdateOverdueLoans, BEFORE UPDATE ON loans: NEW as it is stored. *)
UpdateOverdueLoans(new, curdate) ==
    IF new.status = "active" /\ new.due_date < curdate
    THEN [new EXCEPT !.status = "overdue"]
    ELSE new

(* CHECK constraints of schema.sql on books. *)
BookChecks(b) ==
    /\ b.total_copies >= 0
    /\ b.available_copies >= 0
    /\ b.available_copies <= b.total_copies

(* ProcessLoan's UPDATE books. MySQL evaluates the assignments of a
   single-table UPDATE from left to right, and a column named in a later
   assignment has the value an earlier one gave it: the CASE reads the
   decremented available_copies. *)
ProcessLoanBookUpdate(b) ==
    LET dec == b.available_copies - 1
    IN [b EXCEPT !.available_copies = dec,
                 !.status = IF dec - 1 = 0 THEN "checked_out" ELSE b.status]

(* storage.createLoan's UPDATE books, on PostgreSQL: every expression of the
   SET clause reads the row as it was. *)
CreateLoanBookUpdate(b) ==
    [b EXCEPT !.available_copies = b.available_copies - 1,
              !.status = IF b.available_copies - 1 = 0 THEN "checked_out" ELSE "available"]

(* A return that leaves the number of available copies as it was. *)
ReturnBookUpdate_NoIncrement(b) == [b EXCEPT !.status = "available"]

(* ReturnBook's UPDATE books. *)
ReturnBookUpdate(b) ==
    [b EXCEPT !.available_copies = b.available_copies + 1, !.status = "available"]

(* storage.returnBook: UPDATE books SET available_copies = available_copies + 1,
   status = 'available'. *)
StorageReturnBookUpdate(b) ==
    [b EXCEPT !.available_copies = b.available_copies + 1, !.status = "available"]

(* A request or a CALL in progress: where it stands (pc), the operation, the
   loan and the book it is about, what it carries from one statement to the
   next (data), what it found when it was made (pre: the book's
   available_copies for a loan creation, the loan's status for a return, the
   loan's renew_count for a renewal), which of its two writes are done, and its
   outcome. *)
IdleProc == [pc |-> "idle", op |-> "none", lid |-> 0, book |-> NoBook,
             data |-> <<>>, pre |-> NULL, w1 |-> FALSE, w2 |-> FALSE,
             res |-> "none"]

(* A new request takes the first free handler. *)
Free(p) ==
    /\ procs[p].pc = "idle"
    /\ \A q \in ProcIds : q < p => procs[q].pc # "idle"

(* The answers of the requests that are over have been collected. *)
Collected == \A q \in ProcIds : procs[q].pc # "done"

(* No request is between its first statement and its last. *)
NoneInFlight == \A q \in ProcIds : procs[q].pc \in {"idle", "done"}

(* Rows of loans still to be inserted by operations in flight. *)
PendingInserts ==
    Cardinality({p \in ProcIds : procs[p].pc \in {"getBook", "insert", "locked"}})

CanStartInsert == Len(loans) + PendingInserts < MaxLoans

(* Increments of a book's available_copies still to be made by returns in
   flight. *)
PendingReturns(b) ==
    Cardinality({p \in ProcIds : procs[p].pc \in {"retLoan", "retBook"} /\ procs[p].book = b})

CanStartReturn(b) == books[b].available_copies + PendingReturns(b) < MaxAvailable

(* The book row that a ProcessLoan in flight holds locked (FOR UPDATE); a
   SELECT that finds no row locks none. *)
Locked(b) ==
    /\ BookExists(b)
    /\ \E p \in ProcIds : procs[p].pc = "locked" /\ procs[p].book = b

Finish(p, r) == [procs[p] EXCEPT !.pc = "done", !.res = r, !.data = <<>>]

----------------------------------------------------------------------------
(* Initial state: the schema installed and the books on the shelf, with no
   loan yet, or with one loan of book 1 that p1 took out 19 days ago and has
   not brought back: due five days ago, its stored status still active. *)

StaleLoan ==
    [user_id |-> "p1", book_id |-> 1,
     loan_date |-> StartDay - StaleDays - DefaultLoanDays,
     due_date |-> StartDay - StaleDays, return_date |-> NULL,
     renew_count |-> 0, status |-> "active", fine |-> 0]

NewBook(n) == [total_copies |-> n, available_copies |-> n, status |-> "available"]

(* The place of a user id that no row of users has. *)
UnusedUser ==
    [role |-> "none", is_active |-> FALSE, membership_type |-> "none",
     password_hash |-> SHA2(<<>>, 0), failed_login_attempts |-> 0,
     last_login |-> NULL, updated_at |-> NULL]

(* The accounts: two patrons, one of them deactivated, and a member of
   staff, inserted on the day the model starts: nobody has logged in yet
   (last_login is NULL) and updated_at has its DEFAULT CURRENT_TIMESTAMP. *)
SeedUsers ==
    [u \in UserSlots |->
        IF u = NoUser THEN UnusedUser
        ELSE [role |-> IF u = "s1" THEN "staff" ELSE "patron",
              is_active |-> u # "p2",
              membership_type |-> "standard",
              password_hash |-> EncryptPassword(SeedPassword),
              failed_login_attempts |-> 0,
              last_login |-> NULL, updated_at |-> StartDay]]

Init ==
    /\ schema \in {"sql", "drizzle"}
    /\ today = StartDay
    /\ users = SeedUsers
    /\ sessions = <<>>
    /\ audit_log = <<>>
    /\ \E n \in 1..MaxCopies, stale \in BOOLEAN :
          /\ loans = IF stale THEN <<StaleLoan>> ELSE <<>>
          /\ books = [b \in BookIds |->
                IF stale /\ b = 1
                THEN IF schema = "sql" THEN ProcessLoanBookUpdate(NewBook(n))
                                       ELSE CreateLoanBookUpdate(NewBook(n))
                ELSE NewBook(n)]
    /\ procs = [p \in ProcIds |-> IdleProc]

----------------------------------------------------------------------------
(* Requests: who calls, and what the body holds *)

Callers == UserIds

(* Bodies of POST /api/loans that insertLoanSchema accepts: the required
   keys (a loan of today, due in two weeks), or with them the optional keys
   of a loan that is overdue and has been renewed twice. *)
LoanBodies ==
    { extra @@ [userId |-> u, bookId |-> b, loanDate |-> StartDay,
                dueDate |-> StartDay + DefaultLoanDays] :
        u \in {"p1", "p2"}, b \in BookIds \cup {NoBook},
        extra \in {<<>>, [status |-> "overdue", renewCount |-> MaxRenewals,
                          dueDate |-> StartDay - StaleDays]} }

(* Loan ids a request may name: the loans there are, and one there is not. *)
LoanIdArgs == 1..(Len(loans) + 1)


----------------------------------------------------------------------------
(* POST /api/loans of routes.ts, then storage.createLoan *)

(* The route up to its first await: storage.getUser(req.user.claims.sub),
   404 when there is no such user, then insertLoanSchema.parse of the body
   with the userId that the role just read gives. Other requests and
   statements run before storage.getBook is awaited. *)
RouteCreateLoan(p, caller, body) ==
    /\ schema = "drizzle"
    /\ Free(p)
    /\ CanStartInsert
    /\ procs' = [procs EXCEPT ![p] =
          IF ~UserExists(caller)
          THEN [Finish(p, "UserNotFound") EXCEPT !.op = "createLoan"]
          ELSE [@ EXCEPT !.pc = "getBook", !.op = "createLoan",
                         !.data = [body EXCEPT !.userId =
                                      IF users[caller].role = "patron"
                                      THEN caller ELSE body.userId]]]
    /\ UNCHANGED <<audit_log, sessions, schema, today, users, books, loans>>

(* The route from storage.getBook(loanData.bookId) to the call of
   storage.createLoan. getBook's select list names books.updatedAt, a column
   the table of shared/schema.ts does not have: the query is built from an
   undefined field, and the build of drizzle-orm in use either rejects it
   (the catch answers 500) or runs it. *)
RouteCreateLoan_GetBook(p) ==
    /\ procs[p].pc = "getBook"
    /\ \E getBookThrows \in BOOLEAN :
         LET b == procs[p].data.bookId
             found == IF BookExists(b) THEN books[b].available_copies ELSE NULL
         IN procs' = [procs EXCEPT ![p] =
              IF getBookThrows
              THEN [Finish(p, "Error500") EXCEPT !.book = b, !.pre = found]
              ELSE IF ~BookExists(b) \/ books[b].available_copies <= 0
              THEN [Finish(p, "BookUnavailable") EXCEPT !.book = b, !.pre = found]
              ELSE [@ EXCEPT !.pc = "insert", !.book = b, !.pre = found]]
    /\ UNCHANGED <<audit_log, sessions, schema, today, users, books, loans>>

(* POST /api/loans of the routes registered in storage.ts: the body goes to
   storage.createLoan as it is. *)
DirectCreateLoan(p, caller, body) ==
    /\ schema = "drizzle"
    /\ Free(p)
    /\ CanStartInsert
    /\ UserExists(caller)
    /\ procs' = [procs EXCEPT ![p] =
            [@ EXCEPT !.pc = "insert", !.op = "createLoanDirect", !.book = body.bookId,
                      !.data = body,
                      !.pre = IF BookExists(body.bookId)
                              THEN books[body.bookId].available_copies ELSE NULL]]
    /\ UNCHANGED <<audit_log, sessions, schema, today, users, books, loans>>

(* storage.createLoan, first statement: INSERT INTO loans ... RETURNING. The
   foreign keys of loans reject a user or a book that is not there. *)
StorageCreateLoan_Insert(p) ==
    /\ procs[p].pc = "insert"
    /\ LET loan == procs[p].data
       IN IF UserExists(loan.userId) /\ BookExists(loan.bookId)
          THEN /\ loans' = Append(loans, InsertLoanRow(loan))
               /\ procs' = [procs EXCEPT ![p] =
                    [@ EXCEPT !.pc = "update", !.lid = Len(loans) + 1, !.w1 = TRUE,
                              !.data = <<>>]]
          ELSE /\ loans' = loans
               /\ procs' = [procs EXCEPT ![p] = Finish(p, "Error500")]
    /\ UNCHANGED <<audit_log, sessions, schema, today, users, books>>

(* storage.createLoan, second statement: UPDATE books ... WHERE id =
   loan.bookId, which changes nothing when no row has that id. *)
StorageCreateLoan_Update(p) ==
    /\ procs[p].pc = "update"
    /\ LET b == procs[p].book
       IN /\ books' = IF BookExists(b)
                      THEN [books EXCEPT ![b] = CreateLoanBookUpdate(books[b])]
                      ELSE books
          /\ procs' = [procs EXCEPT ![p] = [Finish(p, "ok") EXCEPT !.w2 = BookExists(b)]]
    /\ UNCHANGED <<audit_log, sessions, schema, today, users, loans>>

----------------------------------------------------------------------------
(* POST /api/loans/:id/return, then storage.returnBook *)

(* The route up to its first await: storage.getUser, 404 when there is no
   such user. The handler keeps the user object it was given: id and role as
   they were read. Other requests and statements run before storage.getLoan
   is awaited. *)
RouteReturn(p, caller, id) ==
    /\ schema = "drizzle"
    /\ Free(p)
    /\ LoanExists(id) => CanStartReturn(loans[id].book_id)
    /\ procs' = [procs EXCEPT ![p] =
         [(IF ~UserExists(caller) THEN Finish(p, "UserNotFound")
           ELSE [procs[p] EXCEPT !.pc = "getLoan",
                    !.data = [user |-> [id |-> caller, role |-> users[caller].role]]])
          EXCEPT !.op = "returnLoan", !.lid = id, !.pre = "unread"]]
    /\ UNCHANGED <<audit_log, sessions, schema, today, users, books, loans>>

(* user.role !== 'staff' && loan.userId !== user.id, on the user object of
   the handler and the loan row just read. *)
NotOwnLoan(user, id) ==
    user.role # "staff" /\ LoanObject(loans[id]).userId # user.id

(* The rest of the return route without its test of the loan's owner. *)
RouteReturn_GetLoan_AnyCaller(p) ==
    /\ procs[p].pc = "getLoan" /\ procs[p].op = "returnLoan"
    /\ LET id == procs[p].lid
       IN /\ LoanExists(id) => CanStartReturn(loans[id].book_id)
          /\ procs' = [procs EXCEPT ![p] =
               [(IF ~LoanExists(id) THEN Finish(p, "LoanNotFound")
                 ELSE [procs[p] EXCEPT !.pc = "retLoan", !.book = loans[id].book_id,
                                       !.data = <<>>])
                EXCEPT !.pre = IF LoanExists(id) THEN loans[id].status ELSE "none"]]
    /\ UNCHANGED <<audit_log, sessions, schema, today, users, books, loans>>

(* The route from storage.getLoan to the call of storage.returnBook: 404
   when there is no such loan, 403 when the loan is not the user's to
   return. *)
RouteReturn_GetLoan(p) ==
    /\ procs[p].pc = "getLoan" /\ procs[p].op = "returnLoan"
    /\ LET id == procs[p].lid
           user == procs[p].data.user
       IN /\ (LoanExists(id) /\ ~NotOwnLoan(user, id)) => CanStartReturn(loans[id].book_id)
          /\ procs' = [procs EXCEPT ![p] =
               [(IF ~LoanExists(id) THEN Finish(p, "LoanNotFound")
                 ELSE IF NotOwnLoan(user, id) THEN Finish(p, "AccessDenied")
                 ELSE [procs[p] EXCEPT !.pc = "retLoan", !.book = loans[id].book_id,
                                       !.data = <<>>])
                EXCEPT !.pre = IF LoanExists(id) THEN loans[id].status ELSE "none"]]
    /\ UNCHANGED <<audit_log, sessions, schema, today, users, books, loans>>

(* storage.returnBook, first statement: UPDATE loans ... WHERE id = loanId. *)
StorageReturnBook_Loan(p) ==
    /\ procs[p].pc = "retLoan"
    /\ LET id == procs[p].lid
       IN /\ loans' = [loans EXCEPT ![id] =
                UpdateSetLoan(@, [status |-> "returned", returnDate |-> today,
                                  updatedAt |-> today])]
          /\ procs' = [procs EXCEPT ![p] =
                [@ EXCEPT !.pc = "retBook", !.book = loans[id].book_id, !.w1 = TRUE]]
    /\ UNCHANGED <<audit_log, sessions, schema, today, users, books>>

(* storage.returnBook, second statement: UPDATE books ... WHERE id =
   updatedLoan.bookId, which changes nothing when no row has that id. *)
StorageReturnBook_Book(p) ==
    /\ procs[p].pc = "retBook"
    /\ LET b == procs[p].book
       IN /\ books' = IF BookExists(b)
                      THEN [books EXCEPT ![b] = StorageReturnBookUpdate(books[b])]
                      ELSE books
          /\ procs' = [procs EXCEPT ![p] = [Finish(p, "ok") EXCEPT !.w2 = BookExists(b)]]
    /\ UNCHANGED <<audit_log, sessions, schema, today, users, loans>>

----------------------------------------------------------------------------
(* POST /api/loans/:id/renew, then storage.renewLoan *)

(* The route up to its first await: storage.getUser, as the return route. *)
RouteRenew(p, caller, id) ==
    /\ schema = "drizzle"
    /\ Free(p)
    /\ LoanExists(id) => loans[id].due_date + RenewDays <= MaxDueDate
    /\ procs' = [procs EXCEPT ![p] =
         [(IF ~UserExists(caller) THEN Finish(p, "UserNotFound")
           ELSE [procs[p] EXCEPT !.pc = "getLoan",
                    !.data = [user |-> [id |-> caller, role |-> users[caller].role]]])
          EXCEPT !.op = "renewLoan", !.lid = id, !.pre = NULL]]
    /\ UNCHANGED <<audit_log, sessions, schema, today, users, books, loans>>

(* The route from storage.getLoan to the call of storage.renewLoan: 404, 403
   as the return route, then the test of loan.renewalCount. *)
RouteRenew_GetLoan(p) ==
    /\ procs[p].pc = "getLoan" /\ procs[p].op = "renewLoan"
    /\ LET id == procs[p].lid
           user == procs[p].data.user
           goesOn == /\ LoanExists(id)
                     /\ ~NotOwnLoan(user, id)
                     /\ ~JsGte(Prop(LoanObject(loans[id]), "renewalCount"), MaxRenewals)
       IN /\ goesOn => loans[id].due_date + RenewDays <= MaxDueDate
          /\ procs' = [procs EXCEPT ![p] =
               [(IF ~LoanExists(id) THEN Finish(p, "LoanNotFound")
                 ELSE IF NotOwnLoan(user, id) THEN Finish(p, "AccessDenied")
                 ELSE IF JsGte(Prop(LoanObject(loans[id]), "renewalCount"), MaxRenewals)
                 THEN Finish(p, "RenewalLimitExceeded")
                 ELSE [procs[p] EXCEPT !.pc = "renew", !.book = loans[id].book_id,
                                       !.data = <<>>])
                EXCEPT !.pre = IF LoanExists(id) THEN loans[id].renew_count ELSE NULL]]
    /\ UNCHANGED <<audit_log, sessions, schema, today, users, books, loans>>

(* storage.renewLoan: UPDATE loans SET ... WHERE id = loanId. *)
StorageRenewLoan(p) ==
    /\ procs[p].pc = "renew"
    /\ LET id == procs[p].lid
           row == LoanObject(loans[id])
       IN loans' = [loans EXCEPT ![id] =
            UpdateSetLoan(@, [renewalCount |-> Prop(row, "renewalCount"),
                              dueDate |-> row.dueDate + RenewDays,
                              updatedAt |-> today])]
    /\ procs' = [procs EXCEPT ![p] = [Finish(p, "ok") EXCEPT !.w1 = TRUE]]
    /\ UNCHANGED <<audit_log, sessions, schema, today, users, books>>

----------------------------------------------------------------------------
(* CALL ProcessLoan(p_user_id, p_book_id, p_loan_days) *)

LoanDaysArgs == {7, DefaultLoanDays}

(* START TRANSACTION and the three SELECTs. The first locks the book's row
   (FOR UPDATE) until the transaction ends; a SELECT ... INTO that finds no
   row leaves the variable at its DEFAULT. *)
ProcessLoan_Begin(p, p_user_id, p_book_id, p_loan_days) ==
    /\ schema = "sql"
    /\ Free(p)
    /\ CanStartInsert
    /\ ~Locked(p_book_id)
    /\ procs' = [procs EXCEPT ![p] =
         [@ EXCEPT !.pc = "locked", !.op = "ProcessLoan", !.book = p_book_id,
                   !.pre = IF BookExists(p_book_id)
                           THEN books[p_book_id].available_copies ELSE NULL,
                   !.data = [userId |-> p_user_id, loanDays |-> p_loan_days,
                             book_available |->
                                IF BookExists(p_book_id)
                                THEN books[p_book_id].available_copies ELSE 0,
                             user_active |->
                                IF UserExists(p_user_id)
                                THEN users[p_user_id].is_active ELSE FALSE,
                             user_overdue_count |->
                                Cardinality({l \in LoanIds :
                                    /\ loans[l].user_id = p_user_id
                                    /\ loans[l].status = "overdue"})]]]
    /\ UNCHANGED <<audit_log, sessions, schema, today, users, books, loans>>

(* The validation, the INSERT, the UPDATE and COMMIT; a SIGNAL runs the EXIT
   HANDLER: ROLLBACK and RESIGNAL. *)
ProcessLoan_Commit(p) ==
    /\ procs[p].pc = "locked"
    /\ LET s == procs[p].data
           b == procs[p].book
           u == procs[p].data.userId
           new_due_date == today + procs[p].data.loanDays
           err == IF s.book_available <= 0 THEN "BookUnavailable"
                  ELSE IF ~s.user_active THEN "PatronInactive"
                  ELSE IF s.user_overdue_count > 0 THEN "PatronHasOverdueItems"
                  ELSE IF ~BookChecks(ProcessLoanBookUpdate(books[b])) THEN "SqlError"
                  ELSE "ok"
       IN IF err = "ok"
          THEN /\ loans' = Append(loans,
                     [user_id |-> u, book_id |-> b, loan_date |-> today,
                      due_date |-> new_due_date, return_date |-> NULL,
                      renew_count |-> 0, status |-> "active", fine |-> 0])
               /\ books' = [books EXCEPT ![b] = ProcessLoanBookUpdate(books[b])]
               /\ procs' = [procs EXCEPT ![p] =
                    [Finish(p, "ok") EXCEPT !.lid = Len(loans) + 1,
                                            !.w1 = TRUE, !.w2 = TRUE]]
          ELSE /\ procs' = [procs EXCEPT ![p] = Finish(p, err)]
               /\ UNCHANGED <<books, loans>>
    /\ UNCHANGED <<audit_log, sessions, schema, today, users>>

----------------------------------------------------------------------------
(* CALL ReturnBook(p_loan_id, p_return_date) *)

(* p_return_date: NULL, or CURDATE() as the README passes it. *)
ReturnDateArgs == {NULL, today}

(* START TRANSACTION, v_return_date, and the SELECT of the loan's book_id and
   due_date WHERE status = 'active': v_book_id and v_due_date stay NULL when
   no such row is found. *)
ReturnBook_Select(p, p_loan_id, p_return_date) ==
    /\ schema = "sql"
    /\ Free(p)
    /\ LET found == LoanExists(p_loan_id) /\ loans[p_loan_id].status = "active"
       IN procs' = [procs EXCEPT ![p] =
            [@ EXCEPT !.pc = "selected", !.op = "ReturnBook", !.lid = p_loan_id,
                      !.book = IF found THEN loans[p_loan_id].book_id ELSE NoBook,
                      !.data = [v_return_date |->
                                  IF p_return_date = NULL THEN today ELSE p_return_date,
                                v_book_id |->
                                  IF found THEN loans[p_loan_id].book_id ELSE NULL,
                                v_due_date |->
                                  IF found THEN loans[p_loan_id].due_date ELSE NULL],
                      !.pre = IF LoanExists(p_loan_id)
                              THEN loans[p_loan_id].status ELSE "none"]]
    /\ UNCHANGED <<audit_log, sessions, schema, today, users, books, loans>>

(* The fine, the two UPDATEs and COMMIT. UPDATE loans names the loan by id
   alone; UPDATE books names v_book_id, and WHERE id = NULL matches no row. A
   CHECK constraint that fails runs the EXIT HANDLER: ROLLBACK and RESIGNAL. *)
ReturnBook_Commit(p) ==
    /\ procs[p].pc = "selected"
    /\ LET d == procs[p].data
           id == procs[p].lid
           v_fine == ComputeFine(d.v_return_date, d.v_due_date)
           hasBook == d.v_book_id # NULL /\ BookExists(d.v_book_id)
           newBook == ReturnBookUpdate(books[d.v_book_id])
       IN /\ hasBook => ~Locked(d.v_book_id)
          /\ IF hasBook /\ ~BookChecks(newBook)
             THEN /\ procs' = [procs EXCEPT ![p] = Finish(p, "SqlError")]
                  /\ UNCHANGED <<books, loans>>
             ELSE /\ loans' = IF LoanExists(id)
                              THEN [loans EXCEPT ![id] =
                                     UpdateOverdueLoans(
                                       [@ EXCEPT !.return_date = d.v_return_date,
                                                 !.status = "returned",
                                                 !.fine = v_fine], today)]
                              ELSE loans
                  /\ books' = IF hasBook
                              THEN [books EXCEPT ![d.v_book_id] = newBook]
                              ELSE books
                  /\ procs' = [procs EXCEPT ![p] =
                       [Finish(p, "ok") EXCEPT !.w1 = LoanExists(id), !.w2 = hasBook]]
    /\ UNCHANGED <<audit_log, sessions, schema, today, users>>

----------------------------------------------------------------------------
(* Statements run on the database directly *)

(* README, Business Logic Testing: UPDATE loans SET due_date =
   DATE_SUB(CURDATE(), INTERVAL 5 DAY) WHERE id = ...; the trigger
   UpdateOverdueLoans runs before the row is stored. *)
UpdateDueDate(id) ==
    /\ schema = "sql"
    /\ LoanExists(id)
    /\ loans' = [loans EXCEPT ![id] =
                    UpdateOverdueLoans([@ EXCEPT !.due_date = today - StaleDays], today)]
    /\ UNCHANGED <<audit_log, sessions, schema, today, users, books, procs>>

----------------------------------------------------------------------------
(* The environment *)

(* The callers have their answers. *)
Release ==
    /\ \E p \in ProcIds : procs[p].pc = "done"
    /\ procs' = [p \in ProcIds |-> IF procs[p].pc = "done" THEN IdleProc ELSE procs[p]]
    /\ UNCHANGED <<audit_log, sessions, schema, today, users, books, loans>>

----------------------------------------------------------------------------

(* The requests that may reach the REST routes. *)
BeginRoutes ==
    \/ \E p \in ProcIds, caller \in Callers, body \in LoanBodies :
          RouteCreateLoan(p, caller, body)
    \/ \E p \in ProcIds, caller \in Callers, body \in LoanBodies :
          DirectCreateLoan(p, caller, body)
    \/ \E p \in ProcIds, caller \in Callers, id \in LoanIdArgs : RouteReturn(p, caller, id)
    \/ \E p \in ProcIds, caller \in Callers, id \in LoanIdArgs : RouteRenew(p, caller, id)

(* The statements of the requests under way, in any order. *)
ContinueRoutes ==
    \/ \E p \in ProcIds : RouteCreateLoan_GetBook(p)
    \/ \E p \in ProcIds : RouteReturn_GetLoan(p)
    \/ \E p \in ProcIds : RouteRenew_GetLoan(p)
    \/ \E p \in ProcIds : StorageCreateLoan_Insert(p)
    \/ \E p \in ProcIds : StorageCreateLoan_Update(p)
    \/ \E p \in ProcIds : StorageReturnBook_Loan(p)
    \/ \E p \in ProcIds : StorageReturnBook_Book(p)
    \/ \E p \in ProcIds : StorageRenewLoan(p)

(* The CALLs that may begin on the database of schema.sql. *)
BeginProcedures ==
    \/ \E p \in ProcIds, u \in {"p1", "p2"}, b \in BookIds \cup {NoBook},
          d \in LoanDaysArgs : ProcessLoan_Begin(p, u, b, d)
    \/ \E p \in ProcIds, id \in LoanIdArgs, d \in ReturnDateArgs : ReturnBook_Select(p, id, d)

(* The rest of the CALLs under way, in any order. *)
ContinueProcedures ==
    \/ \E p \in ProcIds : ProcessLoan_Commit(p)
    \/ \E p \in ProcIds : ReturnBook_Commit(p)

(* Requests arrive at any time, also while others are under way. *)
Next ==
    \/ Collected /\ BeginRoutes
    \/ ContinueRoutes
    \/ Collected /\ BeginProcedures
    \/ ContinueProcedures
    \/ \E id \in LoanIds : UpdateDueDate(id)
    \/ Release

Spec == Init /\ [][Next]_vars

(* The REST routes alone, on the tables of shared/schema.ts. *)
InitRoutes == Init /\ schema = "drizzle"

NextRoutes ==
    \/ Collected /\ BeginRoutes
    \/ ContinueRoutes
    \/ Release

SpecRoutes == InitRoutes /\ [][NextRoutes]_vars

(* The stored procedures alone, on the database of schema.sql. *)
InitProcedures == Init /\ schema = "sql"

NextProcedures ==
    \/ Collected /\ BeginProcedures
    \/ ContinueProcedures
    \/ \E id \in LoanIds : UpdateDueDate(id)
    \/ Release

SpecProcedures == InitProcedures /\ [][NextProcedures]_vars

(* One request or statement at a time: each begins when none is under way,
   as the statements of the README's test run follow one another. *)
NextSeq ==
    \/ NoneInFlight /\ BeginRoutes
    \/ ContinueRoutes
    \/ NoneInFlight /\ BeginProcedures
    \/ ContinueProcedures
    \/ NoneInFlight /\ \E id \in LoanIds : UpdateDueDate(id)
    \/ Release

SpecSeq == Init /\ [][NextSeq]_vars

----------------------------------------------------------------------------
(* What the properties below speak of *)

CreateOps == {"createLoan", "createLoanDirect", "ProcessLoan"}
ReturnOps == {"returnLoan", "ReturnBook"}

(* The loans of book b that are out: active or overdue. *)
Outstanding(b) ==
    {l \in LoanIds : loans[l].book_id = b /\ loans[l].status \in {"active", "overdue"}}

(* The step is one of handler p's request. *)
StepOf(p) == procs'[p] # procs[p] /\ procs'[p].pc # "idle"

(* Request p found its book missing, or with no copy left, when it began. *)
FoundNoCopy(r) == ~BookExists(r.book) \/ r.pre = 0

----------------------------------------------------------------------------
(* C1: in every reachable state, every book has
   0 <= available_copies <= total_copies, whatever sequence of loan
   creations, returns and renewals has been run on either path. *)
C1_CopiesInRange ==
    \A b \in BookIds :
        /\ 0 <= books[b].available_copies
        /\ books[b].available_copies <= books[b].total_copies

(* C2: when two loan creations for the same book both begin while the book
   has exactly one available copy, exactly one succeeds, the other fails with
   BookUnavailable, exactly one of them has inserted a loan row, and the book
   ends with no available copy. *)
C2_LastCopyOnce ==
    \A p, q \in ProcIds :
        ( /\ p < q
          /\ procs[p].pc = "done" /\ procs[q].pc = "done"
          /\ procs[p].op \in CreateOps /\ procs[q].op \in CreateOps
          /\ procs[p].book = procs[q].book /\ BookExists(procs[p].book)
          /\ procs[p].pre = 1 /\ procs[q].pre = 1 )
        => /\ {procs[p].res, procs[q].res} = {"ok", "BookUnavailable"}
           /\ procs[p].w1 # procs[q].w1
           /\ books[procs[p].book].available_copies = 0

(* C3: a loan creation or a return has written both the loans row and the
   books row, or neither; no state shows one of the two writes without the
   other. *)
C3_BothWritesOrNone ==
    \A p \in ProcIds :
        procs[p].op \in CreateOps \cup ReturnOps => procs[p].w1 = procs[p].w2

(* C4: a loan creation that finds its book missing, or with
   available_copies = 0, writes nothing in any of its steps (no loan row, no
   change of any book) and ends with a failure, never with success. *)
C4_NoCopyNoWrite ==
    [][\A p \in ProcIds :
         (StepOf(p) /\ procs'[p].op \in CreateOps /\ FoundNoCopy(procs'[p]))
         => /\ loans' = loans
            /\ books' = books
            /\ (procs'[p].pc = "done" => procs'[p].res # "ok")]_vars

(* C5: whenever no request is under way, every book has available_copies =
   total_copies - the number of its loans that are active or overdue. *)
C5_Conservation ==
    NoneInFlight =>
        \A b \in BookIds :
            books[b].available_copies =
                books[b].total_copies - Cardinality(Outstanding(b))

(* The due date of loan l is the one that the statement of the README run
   on the database directly gives it; ProcessLoan sets none in the past. *)
DueDateRewritten(l) == schema = "sql" /\ loans[l].due_date = today - StaleDays

(* A loan creation p that succeeded on a book that had a copy, for a patron
   who is active, and a return q of the loan it created, begun when the loan
   was there and carried out, with no other request since the creation and no
   statement on the loan in between. *)
CreatedThenReturned(p, q) ==
    /\ procs[p].pc = "done" /\ procs[p].op \in CreateOps
    /\ procs[p].res = "ok" /\ procs[p].pre > 0
    /\ users[loans[procs[p].lid].user_id].is_active
    /\ procs[q].pc = "done" /\ procs[q].op \in ReturnOps
    /\ procs[q].lid = procs[p].lid /\ procs[q].pre # "none"
    /\ procs[q].res \in {"ok", "SqlError"}
    /\ \A r \in ProcIds \ {p, q} : procs[r].pc = "idle"
    /\ ~DueDateRewritten(procs[p].lid)

(* C6: when requests run one at a time, a loan creation that succeeds on a
   book with available_copies > 0, followed at once by the return of the loan
   it created (no statement on the loan in between), leaves the book with the available_copies it had before the
   creation, and the return succeeds. *)
C6_CreateReturnRestores ==
    \A p, q \in ProcIds :
        CreatedThenReturned(p, q)
        => /\ procs[q].res = "ok"
           /\ books[procs[p].book].available_copies = procs[p].pre

C6_Witness ==
    \E p, q \in ProcIds :
        /\ CreatedThenReturned(p, q)
        /\ books[procs[p].book].available_copies = procs[p].pre
        /\ loans[procs[p].lid].status = "returned"

(* C7: every step that marks a loan returned stores its fine: 50 cents for
   each day from due_date to return_date when return_date > due_date, and 0
   otherwise (2.50 for a loan due on day 10 and returned on day 15). *)
C7_FineStored ==
    [][\A l \in LoanIds :
         (loans[l].status # "returned" /\ loans'[l].status = "returned")
         => loans'[l].fine =
               IF loans'[l].return_date > loans'[l].due_date
               THEN (loans'[l].return_date - loans'[l].due_date) * FineCentsPerDay
               ELSE 0]_vars

(* C8: a return of a loan that is past due and whose stored status is active
   or overdue, by a caller who may return it, succeeds: the loan is returned,
   carries the late fine, and the book has been given its copy back. *)
C8_PastDueReturn ==
    \A p \in ProcIds :
        ( /\ procs[p].pc = "done" /\ procs[p].op \in ReturnOps
          /\ procs[p].pre \in {"active", "overdue"}
          /\ procs[p].res # "AccessDenied"
          /\ loans[procs[p].lid].due_date < today )
        => /\ procs[p].res = "ok"
           /\ loans[procs[p].lid].status = "returned"
           /\ loans[procs[p].lid].fine =
                 (today - loans[procs[p].lid].due_date) * FineCentsPerDay
           /\ procs[p].w2

(* C9: a return of a loan that does not exist, or is already returned,
   changes no loan and no book in any of its steps, and ends with a failure,
   never with success. *)
C9_ReturnOnlyOnce ==
    [][\A p \in ProcIds :
         (StepOf(p) /\ procs'[p].op \in ReturnOps /\ procs'[p].pre \in {"none", "returned"})
         => /\ loans' = loans
            /\ books' = books
            /\ (procs'[p].pc = "done" => procs'[p].res # "ok")]_vars

(* C10: a renewal of a loan whose renew_count is 2 (or more) when the request
   begins changes no loan in any of its steps, and ends with
   RenewalLimitExceeded unless the loan is not the caller's to renew. *)
C10_RenewalLimit ==
    [][\A p \in ProcIds :
         (StepOf(p) /\ procs'[p].op = "renewLoan" /\ procs'[p].pre >= MaxRenewals)
         => /\ loans' = loans
            /\ (procs'[p].pc = "done" =>
                  procs'[p].res \in {"RenewalLimitExceeded", "AccessDenied"})]_vars

(* C11: a renewal that succeeds adds exactly 1 to the loan's renew_count and
   sets its due_date to the due_date it had plus 14 days, whatever the day
   is. *)
C11_RenewEffect ==
    [][\A p \in ProcIds :
         (StepOf(p) /\ procs'[p].op = "renewLoan"
          /\ procs'[p].pc = "done" /\ procs'[p].res = "ok")
         => /\ loans'[procs[p].lid].renew_count = loans[procs[p].lid].renew_count + 1
            /\ loans'[procs[p].lid].due_date = loans[procs[p].lid].due_date + RenewDays]_vars

----------------------------------------------------------------------------
(* Renewals of a loan that has been renewed before *)

(* A POST /api/loans body for a loan taken 27 days ago, renewed once and due
   tomorrow: the route of storage.ts hands req.body to storage.createLoan,
   renewCount and dates as sent. *)
RenewedOnceBody ==
    [userId |-> "p1", bookId |-> 1, loanDate |-> StartDay + 1 - 2 * DefaultLoanDays,
     dueDate |-> StartDay + 1, renewCount |-> 1]

NextRenew ==
    \/ Collected /\ \E p \in ProcIds, caller \in Callers :
          DirectCreateLoan(p, caller, RenewedOnceBody)
    \/ Collected /\ \E p \in ProcIds, caller \in Callers, id \in LoanIdArgs :
          RouteRenew(p, caller, id)
    \/ \E p \in ProcIds : RouteRenew_GetLoan(p)
    \/ \E p \in ProcIds : StorageCreateLoan_Insert(p)
    \/ \E p \in ProcIds : StorageCreateLoan_Update(p)
    \/ \E p \in ProcIds : StorageRenewLoan(p)
    \/ Release

SpecRenew == InitRoutes /\ [][NextRenew]_vars

(* C12: every loan has 0 <= renew_count <= 2, and of two renewals of the
   same loan that both begin while its renew_count is 1, at most one
   succeeds. *)
C12_RenewalBound ==
    /\ \A l \in LoanIds :
          loans[l].renew_count >= 0 /\ loans[l].renew_count <= MaxRenewals
    /\ \A p, q \in ProcIds :
          ( /\ p < q
            /\ procs[p].pc = "done" /\ procs[q].pc = "done"
            /\ procs[p].op = "renewLoan" /\ procs[q].op = "renewLoan"
            /\ procs[p].lid = procs[q].lid
            /\ procs[p].pre = 1 /\ procs[q].pre = 1 )
          => ~(procs[p].res = "ok" /\ procs[q].res = "ok")

----------------------------------------------------------------------------
(* The loan of request p, before its first write: the values storage.createLoan
   is about to insert, or ProcessLoan's p_user_id. *)
RequestedFor(p) == procs[p].data.userId

(* Request p is a loan creation that has written nothing yet. *)
AboutToWrite(p) == StepOf(p) /\ procs[p].pc \in {"insert", "locked"}

(* C13: a loan creation for a patron whose is_active is false writes nothing
   (no loan row, no change of any book) and does not succeed. *)
C13_InactiveRefused ==
    [][\A p \in ProcIds :
         ( /\ AboutToWrite(p)
           /\ UserExists(RequestedFor(p))
           /\ ~users[RequestedFor(p)].is_active )
         => /\ loans' = loans
            /\ books' = books
            /\ procs'[p].res # "ok"]_vars

(* The loans of user u whose stored status is overdue. *)
OverdueLoans(u) == {l \in LoanIds : loans[l].user_id = u /\ loans[l].status = "overdue"}

(* C14: a loan creation for a patron who has a loan in status overdue when
   the request reads its data is refused: a request to the routes is not
   handed to storage.createLoan, and a CALL of ProcessLoan that counted an
   overdue loan writes nothing (no loan row, no change of any book) and does
   not succeed. *)
C14_OverdueRefused ==
    [][\A p \in ProcIds :
         /\ (procs[p].pc \in {"idle", "getBook"} /\ procs'[p].pc = "insert")
            => OverdueLoans(procs'[p].data.userId) = {}
         /\ (StepOf(p) /\ procs[p].pc = "locked"
             /\ procs[p].data.user_overdue_count > 0)
            => /\ loans' = loans
               /\ books' = books
               /\ procs'[p].res # "ok"]_vars

(* C15: every step that inserts a loan inserts one row with status active,
   loan_date today, due_date today + the loan days, no return_date,
   renew_count 0 and fine 0, whatever the caller sent; and the step that ends
   a successful loan creation takes exactly 1 from the book's
   available_copies. *)
C15_NewLoanFields ==
    [][/\ Len(loans') > Len(loans) =>
            /\ Len(loans') = Len(loans) + 1
            /\ LET new == loans'[Len(loans')]
               IN /\ new.status = "active"
                  /\ new.loan_date = today
                  /\ (new.due_date - today) \in LoanDaysArgs
                  /\ new.return_date = NULL
                  /\ new.renew_count = 0
                  /\ new.fine = 0
       /\ \A p \in ProcIds :
            (StepOf(p) /\ procs'[p].op \in CreateOps
             /\ procs'[p].pc = "done" /\ procs'[p].res = "ok")
            => books'[procs'[p].book].available_copies =
                  books[procs'[p].book].available_copies - 1]_vars


----------------------------------------------------------------------------
(* Loans posted with a status or a return date of the sender's choosing *)

(* Bodies of POST /api/loans that insertLoanSchema accepts, status and
   returnDate being optional keys of it: a loan sent as returned with no
   return date, and a loan sent with a return date and no status. *)
PostedBodies ==
    { extra @@ [userId |-> "p1", bookId |-> 1, loanDate |-> StartDay,
                dueDate |-> StartDay + DefaultLoanDays] :
        extra \in {[status |-> "returned"], [returnDate |-> StartDay]} }

NextPosted ==
    \/ Collected /\ \E p \in ProcIds, caller \in Callers, body \in PostedBodies :
          RouteCreateLoan(p, caller, body)
    \/ Collected /\ \E p \in ProcIds, caller \in Callers, body \in PostedBodies :
          DirectCreateLoan(p, caller, body)
    \/ Collected /\ \E p \in ProcIds, caller \in Callers, id \in LoanIdArgs :
          RouteReturn(p, caller, id)
    \/ \E p \in ProcIds : RouteCreateLoan_GetBook(p)
    \/ \E p \in ProcIds : RouteReturn_GetLoan(p)
    \/ \E p \in ProcIds : StorageCreateLoan_Insert(p)
    \/ \E p \in ProcIds : StorageCreateLoan_Update(p)
    \/ \E p \in ProcIds : StorageReturnBook_Loan(p)
    \/ \E p \in ProcIds : StorageReturnBook_Book(p)
    \/ Release

SpecPosted == InitRoutes /\ [][NextPosted]_vars

(* C16: in every reachable state, every loan has a return_date if and only
   if its status is returned. *)
C16_ReturnDateIffReturned ==
    \A l \in LoanIds : (loans[l].return_date # NULL) <=> (loans[l].status = "returned")


----------------------------------------------------------------------------
(* The life of a loan's status *)

StatusSteps ==
    {<<"active", "overdue">>, <<"active", "returned">>, <<"overdue", "returned">>}

(* C17: the stored status of a loan changes only from active to overdue,
   from active to returned or from overdue to returned, and the status of a
   returned loan is never changed again, whichever return, renewal or
   overdue recomputation follows. *)
C17_StatusTransitions ==
    [][\A l \in LoanIds :
         /\ l <= Len(loans')
         /\ loans'[l].status # loans[l].status
              => <<loans[l].status, loans'[l].status>> \in StatusSteps
         /\ loans[l].status = "returned" => loans'[l].status = "returned"]_vars

(* A loan taken today that was returned, was returned again by a call that
   found it returned, and stands returned with its due date moved into the
   past by the statement that fires the overdue trigger. *)
C17_Witness ==
    \E p \in ProcIds :
        /\ procs[p].pc = "done" /\ procs[p].op = "ReturnBook"
        /\ procs[p].pre = "returned" /\ procs[p].w1
        /\ loans[procs[p].lid].status = "returned"
        /\ loans[procs[p].lid].loan_date = today
        /\ loans[procs[p].lid].due_date = today - StaleDays


(* C18: in every reachable state a loan stored as overdue has its due_date
   before today, and a loan becomes overdue only from active and only with
   its due_date before today; renewals, which move due_date, keep both. *)
C18_OverdueIsPastDue ==
    /\ [](\A l \in LoanIds : loans[l].status = "overdue" => loans[l].due_date < today)
    /\ [][\A l \in LoanIds :
            (l <= Len(loans') /\ loans[l].status # "overdue" /\ loans'[l].status = "overdue")
            => loans[l].status = "active" /\ loans'[l].due_date < today']_vars


(* C19: after any createLoan or returnLoan that writes a book, the book's
   status is checked_out if and only if its available_copies is 0, and
   available otherwise (no book of the model is marked missing). *)
C19_StatusFollowsCopies ==
    [][\A b \in BookIds :
         books'[b] # books[b]
         => books'[b].status =
               IF books'[b].available_copies = 0 THEN "checked_out" ELSE "available"]_vars


----------------------------------------------------------------------------
(* Deleting a book *)

(* The place of a book whose row has been deleted. *)
DeletedBook == [total_copies |-> 0, available_copies |-> 0, status |-> "deleted"]

BookDeleted(b) == books[b].status = "deleted"

(* The place of a loan whose row has been deleted. *)
DeletedLoan ==
    [user_id |-> NoUser, book_id |-> NoBook, loan_date |-> NULL, due_date |-> NULL,
     return_date |-> NULL, renew_count |-> 0, status |-> "deleted", fine |-> 0]

(* The trigger counting active loans only. *)
prevent_book_deletion_ActiveOnly(b) ==
    Cardinality({l \in LoanIds : loans[l].book_id = b
                                 /\ loans[l].status \in {"active"}}) > 0

(* Trigger prevent_book_deletion, BEFORE DELETE ON books: the loans of the
   book that are active or overdue. *)
prevent_book_deletion(b) ==
    Cardinality({l \in LoanIds : loans[l].book_id = b
                                 /\ loans[l].status \in {"active", "overdue"}}) > 0

(* DELETE FROM books WHERE id = b on the database of schema.sql, at any
   time: the statement waits while a ProcessLoan holds the row locked; with
   no such row it does nothing; else the trigger may SIGNAL; else the row
   goes, and with it the loans that reference it (FOREIGN KEY (book_id)
   REFERENCES books(id) ON DELETE CASCADE). *)
DeleteBookRow(p, b) ==
    /\ schema = "sql"
    /\ Free(p)
    /\ ~Locked(b)
    /\ IF BookExists(b) /\ prevent_book_deletion(b)
       THEN /\ procs' = [procs EXCEPT ![p] =
                 [Finish(p, "SqlError") EXCEPT !.op = "DeleteBook", !.book = b]]
            /\ UNCHANGED <<books, loans>>
       ELSE /\ procs' = [procs EXCEPT ![p] =
                 [Finish(p, "ok") EXCEPT !.op = "DeleteBook", !.book = b,
                                         !.w1 = BookExists(b)]]
            /\ books' = IF BookExists(b) THEN [books EXCEPT ![b] = DeletedBook] ELSE books
            /\ loans' = IF BookExists(b)
                        THEN [l \in LoanIds |->
                                IF loans[l].book_id = b THEN DeletedLoan ELSE loans[l]]
                        ELSE loans
    /\ UNCHANGED <<audit_log, sessions, schema, today, users>>

(* DELETE /api/books/:id of routes.ts: storage.getUser and the test of the
   caller's role. *)
RouteDeleteBook(p, caller, id) ==
    /\ schema = "drizzle"
    /\ Free(p)
    /\ procs' = [procs EXCEPT ![p] =
         [(IF ~UserExists(caller) \/ users[caller].role # "staff"
           THEN Finish(p, "AccessDenied")
           ELSE [procs[p] EXCEPT !.pc = "delete"])
          EXCEPT !.op = "deleteBook", !.book = id]]
    /\ UNCHANGED <<audit_log, sessions, schema, today, users, books, loans>>

(* storage.deleteBook: DELETE FROM books WHERE id. The loans foreign key of
   shared/schema.ts names no ON DELETE action, so the statement fails while a
   loan references the book, and the catch answers 500; with no such row it
   deletes nothing and the route answers 204 all the same. *)
StorageDeleteBook(p) ==
    /\ procs[p].pc = "delete"
    /\ LET id == procs[p].book
           referenced == \E l \in LoanIds : loans[l].book_id = id
       IN IF referenced
          THEN /\ procs' = [procs EXCEPT ![p] = Finish(p, "Error500")]
               /\ books' = books
          ELSE /\ procs' = [procs EXCEPT ![p] =
                    [Finish(p, "ok") EXCEPT !.w1 = BookExists(id)]]
               /\ books' = IF BookExists(id)
                           THEN [books EXCEPT ![id] = DeletedBook]
                           ELSE books
    /\ UNCHANGED <<audit_log, sessions, schema, today, users, loans>>

----------------------------------------------------------------------------
(* The catalogue: POST /api/books and PUT /api/books/:id *)

(* The place of a book id that the sequence of books.id has not given out
   yet. *)
UnusedBook == [total_copies |-> 0, available_copies |-> 0, status |-> "unused"]

(* The books table of shared/schema.ts: the properties of the columns that
   the model keeps. *)
BookColumns ==
    [totalCopies |-> "total_copies", availableCopies |-> "available_copies",
     status |-> "status"]

(* db.update(books).set(values), as UpdateSetLoan. *)
UpdateSetBook(row, values) ==
    [c \in DOMAIN row |->
        LET keys == {k \in DOMAIN BookColumns : BookColumns[k] = c /\ k \in DOMAIN values}
        IN IF keys = {} THEN row[c] ELSE values[CHOOSE k \in keys : TRUE]]

(* db.insert(books).values(book): the columns given, and the column defaults
   (total_copies 1, available_copies 1, status available). *)
InsertBookRow(book) ==
    UpdateSetBook([total_copies |-> 1, available_copies |-> 1, status |-> "available"],
                  book)

(* Bodies of POST /api/books that insertBookSchema accepts, as far as the
   copies go: the defaults, or more copies available than there are. *)
CreateBookBodies == {<<>>, [totalCopies |-> 1, availableCopies |-> MaxCopies]}

(* Bodies of PUT /api/books/:id that insertBookSchema.partial() accepts. *)
UpdateBookBodies ==
    {[status |-> "missing"], [totalCopies |-> 1, availableCopies |-> MaxCopies]}

(* The book ids not given out yet, and the rows of books still to be
   inserted by requests in flight. *)
UnusedBookIds == {b \in BookIds : books[b].status = "unused"}

PendingBooks == Cardinality({p \in ProcIds : procs[p].pc = "createBook"})

CanStartBook == PendingBooks < Cardinality(UnusedBookIds)

(* POST /api/books of routes.ts: storage.getUser, the test of the caller's
   role and insertBookSchema.parse. *)
RouteCreateBook(p, caller, body) ==
    /\ schema = "drizzle"
    /\ Free(p)
    /\ CanStartBook
    /\ procs' = [procs EXCEPT ![p] =
         [(IF ~UserExists(caller) \/ users[caller].role # "staff"
           THEN Finish(p, "AccessDenied")
           ELSE [procs[p] EXCEPT !.pc = "createBook", !.data = body])
          EXCEPT !.op = "createBook"]]
    /\ UNCHANGED <<audit_log, sessions, schema, today, users, books, loans>>

(* POST /api/books of the routes registered in storage.ts: the body goes to
   storage.createBook as it is, whoever sends it. *)
DirectCreateBook(p, caller, body) ==
    /\ schema = "drizzle"
    /\ Free(p)
    /\ CanStartBook
    /\ UserExists(caller)
    /\ procs' = [procs EXCEPT ![p] =
         [@ EXCEPT !.pc = "createBook", !.op = "createBookDirect", !.data = body]]
    /\ UNCHANGED <<audit_log, sessions, schema, today, users, books, loans>>

(* storage.createBook: INSERT INTO books ... RETURNING, under the next id of
   the sequence. *)
StorageCreateBook(p) ==
    /\ procs[p].pc = "createBook"
    /\ LET b == CHOOSE n \in UnusedBookIds : \A m \in UnusedBookIds : n <= m
       IN /\ books' = [books EXCEPT ![b] = InsertBookRow(procs[p].data)]
          /\ procs' = [procs EXCEPT ![p] =
                [Finish(p, "ok") EXCEPT !.book = b, !.w1 = TRUE]]
    /\ UNCHANGED <<audit_log, sessions, schema, today, users, loans>>

(* PUT /api/books/:id of routes.ts: storage.getUser, the test of the
   caller's role and insertBookSchema.partial().parse. *)
RouteUpdateBook(p, caller, id, body) ==
    /\ schema = "drizzle"
    /\ Free(p)
    /\ procs' = [procs EXCEPT ![p] =
         [(IF ~UserExists(caller) \/ users[caller].role # "staff"
           THEN Finish(p, "AccessDenied")
           ELSE [procs[p] EXCEPT !.pc = "updateBook", !.data = body])
          EXCEPT !.op = "updateBook", !.book = id]]
    /\ UNCHANGED <<audit_log, sessions, schema, today, users, books, loans>>

(* storage.updateBook: UPDATE books SET ... WHERE id = id RETURNING; with no
   such row nothing changes and the route answers 200 all the same. *)
StorageUpdateBook(p) ==
    /\ procs[p].pc = "updateBook"
    /\ LET id == procs[p].book
       IN /\ books' = IF BookExists(id)
                      THEN [books EXCEPT ![id] =
                              UpdateSetBook(@, procs[p].data @@ [updatedAt |-> today])]
                      ELSE books
          /\ procs' = [procs EXCEPT ![p] =
                [Finish(p, "ok") EXCEPT !.w1 = BookExists(id)]]
    /\ UNCHANGED <<audit_log, sessions, schema, today, users, loans>>

(* storage.updateLoan: UPDATE loans SET ... WHERE id = id RETURNING. No
   route calls it; it is part of the interface IStorage. *)
StorageUpdateLoan(id, loan) ==
    /\ schema = "drizzle"
    /\ LoanExists(id)
    /\ loans' = [loans EXCEPT ![id] = UpdateSetLoan(@, loan @@ [updatedAt |-> today])]
    /\ loans' # loans
    /\ UNCHANGED <<audit_log, sessions, schema, today, users, books, procs>>

(* The values storage.updateLoan is called with: a loan made active again,
   its renewals forgotten. *)
UpdateLoanValues == {[status |-> "active", renewCount |-> 0]}

(* The tables of shared/schema.ts as they are created: no book yet. *)
InitCatalogue ==
    /\ schema = "drizzle"
    /\ today = StartDay
    /\ users = SeedUsers
    /\ sessions = <<>>
    /\ audit_log = <<>>
    /\ loans = <<>>
    /\ books = [b \in BookIds |-> UnusedBook]
    /\ procs = [p \in ProcIds |-> IdleProc]

(* Lending and returning, on either database, while books are deleted. *)
NextDelete ==
    \/ Collected /\ \E p \in ProcIds, caller \in Callers, body \in LoanBodies :
          RouteCreateLoan(p, caller, body)
    \/ Collected /\ \E p \in ProcIds, caller \in Callers, id \in LoanIdArgs :
          RouteReturn(p, caller, id)
    \/ Collected /\ \E p \in ProcIds, caller \in Callers, id \in BookIds \cup {NumBooks + 1} :
          RouteDeleteBook(p, caller, id)
    \/ \E p \in ProcIds : RouteCreateLoan_GetBook(p)
    \/ \E p \in ProcIds : RouteReturn_GetLoan(p)
    \/ \E p \in ProcIds : StorageCreateLoan_Insert(p)
    \/ \E p \in ProcIds : StorageCreateLoan_Update(p)
    \/ \E p \in ProcIds : StorageReturnBook_Loan(p)
    \/ \E p \in ProcIds : StorageReturnBook_Book(p)
    \/ \E p \in ProcIds : StorageDeleteBook(p)
    \/ Collected /\ BeginProcedures
    \/ ContinueProcedures
    \/ Collected /\ \E p \in ProcIds, b \in BookIds : DeleteBookRow(p, b)
    \/ \E id \in LoanIds : UpdateDueDate(id)
    \/ Release

SpecDelete == Init /\ [][NextDelete]_vars

(* Who sends the requests below: a patron and a member of staff. *)
CatalogueCallers == {"p1", "s1"}

(* Bodies of POST /api/loans for the books of the catalogue. *)
CatalogueLoanBodies ==
    {[userId |-> "p1", bookId |-> b, loanDate |-> StartDay,
      dueDate |-> StartDay + DefaultLoanDays] : b \in BookIds}

(* The keeping of the catalogue through the REST routes, from no book at
   all, while books are lent and returned. *)
NextCatalogue ==
    \/ Collected /\ \E p \in ProcIds, caller \in CatalogueCallers, body \in CreateBookBodies :
          RouteCreateBook(p, caller, body)
    \/ Collected /\ \E p \in ProcIds, caller \in CatalogueCallers, body \in CreateBookBodies :
          DirectCreateBook(p, caller, body)
    \/ Collected /\ \E p \in ProcIds, caller \in CatalogueCallers, id \in BookIds,
                        body \in UpdateBookBodies : RouteUpdateBook(p, caller, id, body)
    \/ Collected /\ \E p \in ProcIds, caller \in CatalogueCallers, id \in BookIds :
          RouteDeleteBook(p, caller, id)
    \/ Collected /\ \E p \in ProcIds, caller \in CatalogueCallers, body \in CatalogueLoanBodies :
          RouteCreateLoan(p, caller, body)
    \/ Collected /\ \E p \in ProcIds, caller \in CatalogueCallers, body \in CatalogueLoanBodies :
          DirectCreateLoan(p, caller, body)
    \/ Collected /\ \E p \in ProcIds, caller \in CatalogueCallers, id \in LoanIdArgs :
          RouteReturn(p, caller, id)
    \/ \E p \in ProcIds : StorageCreateBook(p)
    \/ \E p \in ProcIds : StorageUpdateBook(p)
    \/ \E p \in ProcIds : StorageDeleteBook(p)
    \/ \E p \in ProcIds : RouteCreateLoan_GetBook(p)
    \/ \E p \in ProcIds : RouteReturn_GetLoan(p)
    \/ \E p \in ProcIds : StorageCreateLoan_Insert(p)
    \/ \E p \in ProcIds : StorageCreateLoan_Update(p)
    \/ \E p \in ProcIds : StorageReturnBook_Loan(p)
    \/ \E p \in ProcIds : StorageReturnBook_Book(p)
    \/ \E id \in LoanIds, loan \in UpdateLoanValues : StorageUpdateLoan(id, loan)
    \/ Release

SpecCatalogue == InitCatalogue /\ [][NextCatalogue]_vars

(* C20: loans are append-only: a loan that has been created stays, under
   its id, whatever is done afterwards, deleting its book included. *)
C20_LoansAppendOnly ==
    [][\A l \in LoanIds :
         LoanExists(l)
         => /\ LoanExists(l)'
            /\ loans'[l].user_id = loans[l].user_id
            /\ loans'[l].book_id = loans[l].book_id
            /\ loans'[l].loan_date = loans[l].loan_date]_vars


----------------------------------------------------------------------------
(* Returns and creations that overlap *)

(* Requests p and q are over, both were returns of the same loan, both found
   it active when they began, and both were let through to the database. *)
BothReturnedActive(p, q) ==
    /\ p < q
    /\ procs[p].pc = "done" /\ procs[q].pc = "done"
    /\ procs[p].op \in ReturnOps /\ procs[q].op \in ReturnOps
    /\ procs[p].lid = procs[q].lid
    /\ procs[p].pre = "active" /\ procs[q].pre = "active"
    /\ {procs[p].res, procs[q].res} \cap {"AccessDenied", "UserNotFound"} = {}

(* C21: of two returns of the same active loan that run concurrently,
   exactly one succeeds and exactly one adds a copy to the book; and a step
   of a creation or of a return that writes the book's available_copies
   while other requests are under way takes exactly one copy, or adds
   exactly one, as it does when run alone. *)
C21_ConcurrentReturns ==
    /\ [](\A p, q \in ProcIds :
            BothReturnedActive(p, q)
            => /\ (procs[p].res = "ok") # (procs[q].res = "ok")
               /\ procs[p].w2 # procs[q].w2)
    /\ [][\A p \in ProcIds, b \in BookIds :
            (StepOf(p) /\ books'[b].available_copies # books[b].available_copies)
            => books'[b].available_copies =
                 books[b].available_copies
                   + (IF procs'[p].op \in ReturnOps THEN 1 ELSE -1)]_vars


(* C22: a renewal succeeds only on a loan whose status is active: on a loan
   that is returned no step of it changes the loan's renew_count or
   due_date, and it ends with a failure. *)
C22_RenewOnlyActive ==
    [][\A p \in ProcIds :
         ( /\ StepOf(p) /\ procs'[p].op = "renewLoan"
           /\ LoanExists(procs'[p].lid)
           /\ loans[procs'[p].lid].status = "returned" )
         => /\ loans'[procs'[p].lid].renew_count = loans[procs'[p].lid].renew_count
            /\ loans'[procs'[p].lid].due_date = loans[procs'[p].lid].due_date
            /\ (procs'[p].pc = "done" => procs'[p].res # "ok")]_vars


DeleteOps == {"deleteBook", "DeleteBook"}

(* The loans that reference book b. *)
LoansOf(b) == {l \in LoanIds : loans[l].book_id = b}

(* C23: a deletion of a book that has a loan in status active or overdue
   fails and removes neither the book nor any loan; a book's row goes only
   while none of its loans is active or overdue, and no book that is gone
   has such a loan. *)
C23_NoDeletionWhileOut ==
    /\ [](\A b \in BookIds : BookDeleted(b) => Outstanding(b) = {})
    /\ [][/\ \A b \in BookIds :
               (Outstanding(b) # {} /\ BookExists(b))
               => /\ BookExists(b)'
                  /\ \A l \in LoansOf(b) : LoanExists(l)'
          /\ \A p \in ProcIds :
               ( /\ StepOf(p) /\ procs'[p].op \in DeleteOps /\ procs'[p].pc = "done"
                 /\ BookExists(procs'[p].book) /\ Outstanding(procs'[p].book) # {}
                 /\ procs'[p].res # "AccessDenied" )
               => /\ procs'[p].res \in {"SqlError", "Error500"}
                  /\ books' = books /\ loans' = loans]_vars

(* DELETE FROM books was run on a book of schema.sql that has a loan out,
   and was refused. *)
C23_Witness ==
    \E p \in ProcIds :
        /\ procs[p].pc = "done" /\ procs[p].op = "DeleteBook"
        /\ procs[p].res = "SqlError"
        /\ Outstanding(procs[p].book) # {}
        /\ BookExists(procs[p].book)


----------------------------------------------------------------------------
(* CALL AuthenticateUser(p_email, p_password, p_user_id, p_role, p_is_valid) *)

MaxFailedAttempts == 5

(* E-mail addresses are written as the id of the user they belong to; one
   address belongs to nobody. *)
EmailArgs == UserIds \cup {NoUser}

PasswordArgs == {SeedPassword, "wrong_password"}

(* The SELECT ... INTO ... FROM users WHERE email = p_email: the OUT
   parameters and the variables keep NULL and their DEFAULTs when no row is
   found. The procedure opens no transaction: other statements may run
   between this SELECT and the UPDATE that follows. *)
AuthenticateUser_SelectFor(p, caller_op, p_email, p_password) ==
    /\ schema = "sql"
    /\ Free(p)
    /\ LET found == UserExists(p_email)
       IN procs' = [procs EXCEPT ![p] =
            [@ EXCEPT !.pc = "authSelected", !.op = caller_op,
                      !.pre = IF found THEN users[p_email].failed_login_attempts ELSE NULL,
                      !.data = [p_email |-> p_email, p_password |-> p_password,
                                p_user_id |-> IF found THEN p_email ELSE NoUser,
                                p_role |-> IF found THEN users[p_email].role ELSE "none",
                                v_stored_hash |->
                                   IF found THEN users[p_email].password_hash ELSE NULL,
                                v_is_active |->
                                   IF found THEN users[p_email].is_active ELSE FALSE,
                                v_failed_attempts |->
                                   IF found THEN users[p_email].failed_login_attempts ELSE 0,
                                given |-> EncryptPassword(p_password)]]]
    /\ UNCHANGED <<audit_log, sessions, schema, today, users, books, loans>>

(* The CALL as the README runs it, on a connection of its own. *)
AuthenticateUser_Select(p, p_email, p_password) ==
    AuthenticateUser_SelectFor(p, "AuthenticateUser", p_email, p_password)

(* The first IF without its test of is_active. *)
AuthPasses_NoActive(d) ==
    d.p_user_id # NoUser /\ d.v_failed_attempts < MaxFailedAttempts

(* The first IF without its test of the failed attempts. *)
AuthPasses_NoLock(d) == d.p_user_id # NoUser /\ d.v_is_active

(* The procedure's two IFs on what the SELECT read. *)
AuthPasses(d) ==
    d.p_user_id # NoUser /\ d.v_is_active /\ d.v_failed_attempts < MaxFailedAttempts

AuthIsValid(d) == AuthPasses(d) /\ d.v_stored_hash = d.given

(* updated_at TIMESTAMP ... ON UPDATE CURRENT_TIMESTAMP: an UPDATE that changes
   a column of the row stamps it; one that sets every column to the value it
   has leaves it. CURRENT_TIMESTAMP is kept to the day. *)
OnUpdateCurrentTimestamp(old, new) ==
    IF new # old THEN [new EXCEPT !.updated_at = today] ELSE new

(* Trigger audit_users_update, AFTER UPDATE ON users FOR EACH ROW: the row it
   inserts into audit_log for the user row under id. The e-mail of a user
   is written as the user's id; audit_log.id is the row's place in the
   table. *)
audit_users_update(old, new, id) ==
    [table_name |-> "users", operation |-> "UPDATE", record_id |-> id,
     old_values |-> [email |-> id, role |-> old.role, is_active |-> old.is_active],
     new_values |-> [email |-> id, role |-> new.role, is_active |-> new.is_active],
     user_id |-> id, timestamp |-> today]

(* UPDATE users SET failed_login_attempts = 0, last_login = CURRENT_TIMESTAMP
   WHERE id = p_user_id, or SET failed_login_attempts =
   failed_login_attempts + 1: the increment reads the row as it is now.
   Either UPDATE fires audit_users_update for the row it matches. *)
AuthenticateUser_Update(p) ==
    /\ procs[p].pc = "authSelected"
    /\ LET d == procs[p].data
           u == d.p_user_id
           old == users[u]
           new == OnUpdateCurrentTimestamp(old,
                     IF AuthIsValid(d)
                     THEN [old EXCEPT !.failed_login_attempts = 0, !.last_login = today]
                     ELSE [old EXCEPT !.failed_login_attempts = @ + 1])
           matched == AuthPasses(d) /\ UserExists(u)
       IN /\ users' = IF matched THEN [users EXCEPT ![u] = new] ELSE users
          /\ audit_log' = IF matched
                          THEN Append(audit_log, audit_users_update(old, new, u))
                          ELSE audit_log
          /\ procs' = [procs EXCEPT ![p] =
                [@ EXCEPT !.pc = IF procs[p].op = "login" THEN "authenticated" ELSE "done",
                          !.w1 = AuthPasses(d),
                          !.res = IF AuthIsValid(d) THEN "valid" ELSE "invalid"]]
    /\ UNCHANGED <<sessions, schema, today, books, loans>>

InitAuth == Init /\ schema = "sql" /\ loans = <<>> /\ books[1].total_copies = 1

(* The calls, at any time, until audit_log holds MaxAudit rows. *)
NextAuth ==
    \/ Collected /\ Len(audit_log) < MaxAudit
         /\ \E p \in ProcIds, e \in EmailArgs, pw \in PasswordArgs :
               AuthenticateUser_Select(p, e, pw)
    \/ \E p \in ProcIds : AuthenticateUser_Update(p)
    \/ Release

SpecAuth == InitAuth /\ [][NextAuth]_vars


----------------------------------------------------------------------------
(* What AuthenticateUser answers *)

(* Call p of AuthenticateUser ends in this step. *)
AuthEnds(p) ==
    StepOf(p) /\ procs'[p].op = "AuthenticateUser" /\ procs'[p].pc = "done"

(* The account that call p names, as the call found it: there is a user of
   that address, active, with fewer than 5 failed attempts when the call
   read the row, whose stored hash is the hash of the password given. *)
GoodLogin(p) ==
    LET e == procs[p].data.p_email
    IN /\ UserExists(e)
       /\ users[e].is_active
       /\ procs[p].pre < MaxFailedAttempts
       /\ users[e].password_hash = EncryptPassword(procs[p].data.p_password)

(* C24: AuthenticateUser reports p_is_valid = TRUE exactly when the e-mail
   belongs to an existing user who is active, has fewer than 5 failed login
   attempts and whose stored hash equals the hash of the password given; a
   wrong password, an unknown e-mail or an inactive user is reported FALSE. *)
C24_ValidExactly ==
    [][\A p \in ProcIds :
         AuthEnds(p) => ((procs'[p].res = "valid") <=> GoodLogin(p))]_vars

(* One call has ended valid, and calls with a wrong password, for an unknown
   address and for the inactive p2 with the right password have ended. *)
C24_Witness ==
    \E p, q \in ProcIds :
        /\ procs[p].pc = "done" /\ procs[p].op = "AuthenticateUser"
        /\ procs[p].res = "valid"
        /\ procs[q].pc = "done" /\ procs[q].op = "AuthenticateUser"
        /\ procs[q].res = "invalid"
        /\ procs[q].data.p_email = "p2"
        /\ procs[q].data.p_password = SeedPassword


(* Call q of AuthenticateUser is over, and it began when the account it
   names had 5 failed attempts stored. *)
CalledWhenLocked(q) ==
    /\ procs[q].pc = "done" /\ procs[q].op = "AuthenticateUser"
    /\ procs[q].pre >= MaxFailedAttempts

(* C25: once an account has 5 failed attempts, every later call of
   AuthenticateUser for it reports FALSE, the correct password included, and
   failed_login_attempts never exceeds 5. *)
C25_FailedLoginProtection ==
    /\ \A u \in UserIds : users[u].failed_login_attempts <= MaxFailedAttempts
    /\ \A q \in ProcIds : CalledWhenLocked(q) => procs[q].res = "invalid"


(* The failed_login_attempts of every user. *)
Attempts == [u \in UserIds |-> users[u].failed_login_attempts]

(* What the claim lists of a call p that ends in this step, e being the
   address it names: a valid call leaves the counter at 0, a wrong password
   for an active account that had fewer than 5 failures when the call read
   it adds exactly 1, and a call for an unknown e-mail, an inactive account
   or a locked account changes no user's failed_login_attempts. *)
AuthOpen(p) ==
    LET e == procs[p].data.p_email
    IN UserExists(e) /\ users[e].is_active /\ procs[p].pre < MaxFailedAttempts

CountersAsListed(p) ==
    LET e == procs[p].data.p_email
    IN /\ procs'[p].res = "valid" => Attempts'[e] = 0
       /\ (AuthOpen(p) /\ procs'[p].res = "invalid") => Attempts'[e] = Attempts[e] + 1
       /\ ~AuthOpen(p) => Attempts' = Attempts

(* C30 as stated: AuthenticateUser changes the targeted account's
   failed_login_attempts, as listed, and nothing else of users. *)
C30_OnlyCounters ==
    [][/\ \A p \in ProcIds :
            AuthEnds(p) =>
              LET e == procs[p].data.p_email
              IN /\ \A u \in UserIds \ {e} : users'[u] = users[u]
                 /\ UserExists(e) =>
                      users' = [users EXCEPT ![e].failed_login_attempts =
                                   users'[e].failed_login_attempts]
                 /\ CountersAsListed(p)
       /\ (\A p \in ProcIds : ~AuthEnds(p)) => users' = users]_vars

(* The columns of users that the model keeps and AuthenticateUser never
   writes. *)
KeptColumns(row) ==
    [c \in DOMAIN row \ {"failed_login_attempts", "last_login", "updated_at"} |-> row[c]]

(* C30, amended: AuthenticateUser changes no row of users but the targeted
   account's, and of that row only failed_login_attempts, last_login and
   updated_at: the counter as the claim lists it, last_login set to the
   time of the call by a valid call and left by every other, updated_at set
   to the time of the call or left. A call that passes the first IF adds
   one row to audit_log, for the targeted account; a call for an unknown
   e-mail, an inactive account or a locked account changes nothing at all. *)
C30_AuthFrame ==
    [][/\ \A p \in ProcIds :
            AuthEnds(p) =>
              LET e == procs[p].data.p_email
              IN /\ \A u \in UserSlots \ {e} : users'[u] = users[u]
                 /\ KeptColumns(users'[e]) = KeptColumns(users[e])
                 /\ CountersAsListed(p)
                 /\ users'[e].last_login =
                       IF procs'[p].res = "valid" THEN today ELSE users[e].last_login
                 /\ users'[e].updated_at \in {today, users[e].updated_at}
                 /\ AuthOpen(p) =>
                       /\ Len(audit_log') = Len(audit_log) + 1
                       /\ SubSeq(audit_log', 1, Len(audit_log)) = audit_log
                       /\ audit_log'[Len(audit_log')].record_id = e
                 /\ ~AuthOpen(p) => users' = users /\ audit_log' = audit_log
       /\ (\A p \in ProcIds : ~AuthEnds(p)) => users' = users /\ audit_log' = audit_log]_vars

(* A valid call has reset a counter that stood above 0 when the call read
   it and has written last_login, the row of audit_log that its UPDATE
   added is the last one, and the other call, for a locked account, has
   ended. *)
C30_Witness ==
    \E p, q \in ProcIds :
        /\ procs[p].pc = "done" /\ procs[p].op = "AuthenticateUser"
        /\ procs[p].res = "valid" /\ procs[p].pre > 0
        /\ Attempts[procs[p].data.p_email] = 0
        /\ users[procs[p].data.p_email].last_login = today
        /\ audit_log # <<>>
        /\ audit_log[Len(audit_log)].record_id = procs[p].data.p_email
        /\ CalledWhenLocked(q)
        /\ Attempts[procs[q].data.p_email] >= MaxFailedAttempts


----------------------------------------------------------------------------
(* Sessions of simpleAuth.ts: login, isAuthenticated, logout *)

(* The Map sessions is kept as the sequence of every session ever set, a
   session-id being its place in it (generateSessionId gives an id that no
   session before it had); ended tells how an entry left the Map, "none"
   while it is in it. Time is counted in days. *)
SessionIds == 1..Len(sessions)

InMap(sid) == sid \in SessionIds /\ sessions[sid].ended = "none"

(* The session-id header of a request: none (0), an id that was given out,
   or one that never was. *)
SessionIdArgs == 0..(Len(sessions) + 1)

(* Sessions never expire. *)
SessionExpired_Never(session, now) == FALSE

(* session.expires < Date.now() *)
SessionExpired(session, now) == session.expires < now

(* sessions.delete(sessionId) *)
SessionsDelete(sid, how) ==
    IF InMap(sid) THEN [sessions EXCEPT ![sid].ended = how] ELSE sessions

(* POST login: db.execute of the CALL and of the SELECT of its OUT
   parameters, in one string with placeholders. Whether this build of
   drizzle-orm and mysql2 runs that string or rejects it is not decided by
   the source: either the call throws (the catch answers 500) or
   AuthenticateUser runs. *)
Login_Call(p, email, password) ==
    \E executeThrows \in BOOLEAN :
        IF executeThrows
        THEN /\ schema = "sql"
             /\ Free(p)
             /\ procs' = [procs EXCEPT ![p] = [Finish(p, "Error500") EXCEPT !.op = "login"]]
             /\ UNCHANGED <<audit_log, sessions, schema, today, users, books, loans>>
        ELSE AuthenticateUser_SelectFor(p, "login", email, password)

(* The rest of login: 401 when is_valid is not set, else a new session that
   expires in one week. *)
Login_Session(p) ==
    /\ procs[p].pc = "authenticated"
    /\ IF procs[p].res # "valid"
       THEN /\ procs' = [procs EXCEPT ![p] = [@ EXCEPT !.pc = "done", !.res = "Unauthorized"]]
            /\ UNCHANGED sessions
       ELSE /\ Len(sessions) < MaxSessions
            /\ sessions' = Append(sessions,
                   [userId |-> procs[p].data.p_user_id, role |-> procs[p].data.p_role,
                    expires |-> today + SessionDays, ended |-> "none"])
            /\ procs' = [procs EXCEPT ![p] =
                   [@ EXCEPT !.pc = "done", !.res = "ok", !.lid = Len(sessions) + 1]]
    /\ UNCHANGED <<audit_log, schema, today, users, books, loans>>

(* isAuthenticated on a request that carries session-id sid. *)
IsAuthenticated(p, sid) ==
    /\ schema = "sql"
    /\ Free(p)
    /\ IF sid = 0
       THEN /\ procs' = [procs EXCEPT ![p] =
                   [Finish(p, "Unauthorized") EXCEPT !.op = "request", !.lid = sid]]
            /\ UNCHANGED sessions
       ELSE IF ~InMap(sid) \/ SessionExpired(sessions[sid], today)
       THEN /\ sessions' = SessionsDelete(sid, "expired")
            /\ procs' = [procs EXCEPT ![p] =
                   [Finish(p, "Unauthorized") EXCEPT !.op = "request", !.lid = sid]]
       ELSE /\ procs' = [procs EXCEPT ![p] =
                   [Finish(p, "admitted") EXCEPT !.op = "request", !.lid = sid,
                        !.data = [user |-> [id |-> sessions[sid].userId,
                                            role |-> sessions[sid].role]]]]
            /\ UNCHANGED sessions
    /\ UNCHANGED <<audit_log, schema, today, users, books, loans>>

(* logout *)
Logout(p, sid) ==
    /\ schema = "sql"
    /\ Free(p)
    /\ sessions' = IF sid # 0 THEN SessionsDelete(sid, "logout") ELSE sessions
    /\ procs' = [procs EXCEPT ![p] = [Finish(p, "ok") EXCEPT !.op = "logout", !.lid = sid]]
    /\ UNCHANGED <<audit_log, schema, today, users, books, loans>>

(* A day passes; a request takes far less than a day, and none is under way
   when the date changes. *)
Tick ==
    /\ NoneInFlight
    /\ today < MaxToday
    /\ today' = today + 1
    /\ UNCHANGED <<audit_log, sessions, schema, users, books, loans, procs>>

(* The addresses that log in, each with the password of the sample users:
   p1's, that of p2, who is inactive, and one that belongs to nobody. *)
LoginEmails == {"p1", "p2", NoUser}

NextSession ==
    \/ Collected /\ \E p \in ProcIds, e \in LoginEmails :
          Login_Call(p, e, SeedPassword)
    \/ \E p \in ProcIds : AuthenticateUser_Update(p)
    \/ \E p \in ProcIds : Login_Session(p)
    \/ Collected /\ \E p \in ProcIds, sid \in SessionIdArgs : IsAuthenticated(p, sid)
    \/ Collected /\ \E p \in ProcIds, sid \in SessionIdArgs : Logout(p, sid)
    \/ Tick
    \/ Release

SpecSession == InitAuth /\ [][NextSession]_vars


(* C26: isAuthenticated admits a request if and only if its session-id
   names a session that a login set after AuthenticateUser reported valid,
   that no logout has deleted and that has not expired, one week after the
   login; a session-id that was logged out, or was once rejected as expired,
   is never admitted again. *)
C26_SessionAdmission ==
    [][/\ \A p \in ProcIds :
            (StepOf(p) /\ procs'[p].op = "request")
            => LET sid == procs'[p].lid
               IN (procs'[p].res = "admitted")
                  <=> /\ sid \in SessionIds
                      /\ sessions[sid].ended = "none"
                      /\ today <= sessions[sid].expires
       /\ Len(sessions') > Len(sessions)
            => \E p \in ProcIds :
                 /\ StepOf(p) /\ procs[p].op = "login" /\ procs[p].res = "valid"
                 /\ GoodLogin(p)
                 /\ sessions' = Append(sessions,
                        [userId |-> procs[p].data.p_email,
                         role |-> users[procs[p].data.p_email].role,
                         expires |-> today + SessionDays, ended |-> "none"])
       /\ \A sid \in SessionIds :
            /\ sid <= Len(sessions')
            /\ sessions'[sid].expires = sessions[sid].expires
            /\ sessions[sid].ended # "none" => sessions'[sid].ended = sessions[sid].ended]_vars

(* A request that carries the id of a session that was logged out has been
   rejected, while another session has been rejected as expired after its
   week. *)
C26_Witness ==
    \E p \in ProcIds, sid \in SessionIds :
        /\ procs[p].pc = "done" /\ procs[p].op = "request"
        /\ procs[p].res = "Unauthorized"
        /\ procs[p].lid \in SessionIds
        /\ sessions[procs[p].lid].ended = "logout"
        /\ sessions[sid].ended = "expired"
        /\ today > sessions[sid].expires


----------------------------------------------------------------------------
(* Who may return or renew a loan *)

(* Request p is a return or a renewal that has read its user and is about
   to read its loan. *)
ReadsLoan(p) ==
    /\ procs[p].pc = "getLoan" /\ procs[p].op \in {"returnLoan", "renewLoan"}
    /\ StepOf(p)

(* The user of request p was not staff when the request read it, and the
   loan the request names is another user's. *)
OthersLoan(p) ==
    /\ procs[p].data.user.role # "staff"
    /\ LoanExists(procs[p].lid)
    /\ loans[procs[p].lid].user_id # procs[p].data.user.id

(* C27: a return or a renewal asked by a user who is not staff for a loan
   of another user is rejected with Access denied as soon as the loan is
   read, loan and book left as they are, whatever has been done to the
   users and the loans since the request began; asked by staff, it is never
   rejected on that ground. No step of such a request before the loan is
   read writes a loan or a book. *)
C27_OwnLoansOnly ==
    [][\A p \in ProcIds :
         /\ ReadsLoan(p) =>
              /\ OthersLoan(p)
                   => /\ procs'[p].pc = "done" /\ procs'[p].res = "AccessDenied"
                      /\ loans' = loans /\ books' = books
              /\ procs[p].data.user.role = "staff" => procs'[p].res # "AccessDenied"
         /\ (StepOf(p) /\ procs'[p].pc = "getLoan") => loans' = loans /\ books' = books]_vars

(* A return or a renewal of a loan that is there has been denied. *)
C27_Witness ==
    \E p \in ProcIds :
        /\ procs[p].pc = "done" /\ procs[p].op \in {"returnLoan", "renewLoan"}
        /\ procs[p].res = "AccessDenied"
        /\ LoanExists(procs[p].lid)
        /\ loans[procs[p].lid].user_id = "p2"
        /\ loans[procs[p].lid].status = "active"


(* C28: a loan created by a request of a patron has the patron's own id as
   its user_id, whatever userId the body carries: the request goes to the
   database with the caller's id, and the row inserted has the id the
   request went with. *)
C28_PatronBorrowsForSelf ==
    [][/\ \A p \in ProcIds, caller \in Callers, body \in LoanBodies :
            ( /\ RouteCreateLoan(p, caller, body) \/ DirectCreateLoan(p, caller, body)
              /\ users[caller].role = "patron"
              /\ BookExists(body.bookId) /\ UserExists(body.userId)
              /\ procs'[p].pc \in {"getBook", "insert"} )
            => procs'[p].data.userId = caller
       /\ \A p \in ProcIds :
            (procs[p].pc = "insert" /\ StepOf(p) /\ Len(loans') > Len(loans))
            => loans'[Len(loans')].user_id = procs[p].data.userId]_vars


----------------------------------------------------------------------------
(* PUT /api/members/:id and POST /api/members/:id/deactivate *)

(* The users table of shared/schema.ts: the properties of the columns that
   the model keeps. *)
UserColumns ==
    [role |-> "role", isActive |-> "is_active", membershipType |-> "membership_type",
     updatedAt |-> "updated_at"]

(* db.update(users).set(values), as UpdateSetLoan. *)
UpdateSetUser(row, values) ==
    [c \in DOMAIN row |->
        LET keys == {k \in DOMAIN UserColumns : UserColumns[k] = c /\ k \in DOMAIN values}
        IN IF keys = {} THEN row[c] ELSE values[CHOOSE k \in keys : TRUE]]

(* delete obj[key] *)
Delete(obj, key) == [k \in DOMAIN obj \ {key} |-> obj[k]]

(* updateData with role deleted only. *)
UpdateData_RoleOnly(requestingUser, body) ==
    IF requestingUser.role # "staff" THEN Delete(body, "role") ELSE body

(* const updateData = { ...req.body }, less role and isActive unless the
   requesting user is staff. *)
UpdateData(requestingUser, body) ==
    IF requestingUser.role # "staff"
    THEN Delete(Delete(body, "role"), "isActive")
    ELSE body

(* Bodies of PUT /api/members/:id; the route does not validate them. *)
MemberBodies ==
    {[role |-> r] : r \in {"staff", "patron"}}
      \cup {[isActive |-> a] : a \in BOOLEAN}
      \cup {[membershipType |-> "premium"],
            [role |-> "staff", isActive |-> TRUE, membershipType |-> "premium"],
            [is_active |-> TRUE]}

(* PUT /api/members/:id up to the call of storage.updateMember. *)
RouteUpdateMember(p, caller, id, body) ==
    /\ schema = "drizzle"
    /\ Free(p)
    /\ procs' = [procs EXCEPT ![p] =
         [(IF ~UserExists(caller) THEN Finish(p, "UserNotFound")
           ELSE IF users[caller].role # "staff" /\ caller # id
           THEN Finish(p, "AccessDenied")
           ELSE [procs[p] EXCEPT !.pc = "member",
                    !.data = [requestingUser |-> [id |-> caller, role |-> users[caller].role],
                              id |-> id,
                              values |-> UpdateData(users[caller], body)]])
          EXCEPT !.op = "updateMember"]]
    /\ UNCHANGED <<audit_log, sessions, schema, today, users, books, loans>>

(* POST /api/members/:id/deactivate up to the call of
   storage.deactivateMember. *)
RouteDeactivateMember(p, caller, id) ==
    /\ schema = "drizzle"
    /\ Free(p)
    /\ procs' = [procs EXCEPT ![p] =
         [(IF ~UserExists(caller) \/ users[caller].role # "staff"
           THEN Finish(p, "AccessDenied")
           ELSE [procs[p] EXCEPT !.pc = "member",
                    !.data = [requestingUser |-> [id |-> caller, role |-> users[caller].role],
                              id |-> id,
                              values |-> [isActive |-> FALSE]]])
          EXCEPT !.op = "deactivateMember"]]
    /\ UNCHANGED <<audit_log, sessions, schema, today, users, books, loans>>

(* storage.updateMember and storage.deactivateMember: UPDATE users SET ...
   WHERE id = id; no row has the id of nobody. *)
StorageUpdateMember(p) ==
    /\ procs[p].pc = "member"
    /\ LET d == procs[p].data
       IN /\ users' = IF UserExists(d.id)
                      THEN [users EXCEPT ![d.id] =
                              UpdateSetUser(@, d.values @@ [updatedAt |-> today])]
                      ELSE users
          /\ procs' = [procs EXCEPT ![p] =
                [@ EXCEPT !.pc = "done", !.res = "ok", !.w1 = UserExists(d.id)]]
    /\ UNCHANGED <<audit_log, sessions, schema, today, books, loans>>

(* db.insert(users).values(userData): the columns given, and the column
   defaults of shared/schema.ts (role patron, membership_type standard,
   is_active true, updated_at defaultNow()); the table has no password and
   no last_login column. *)
InsertUserRow(userData) ==
    UpdateSetUser([role |-> "patron", is_active |-> TRUE, membership_type |-> "standard",
                   password_hash |-> SHA2(<<>>, 0), failed_login_attempts |-> 0,
                   last_login |-> NULL, updated_at |-> today],
                  userData)

(* storage.upsertUser: INSERT INTO users ... ON CONFLICT (id) DO UPDATE SET
   the columns given: a new row under an id that no user has, the row
   overwritten under an id that is taken. *)
StorageUpsertUser(userData) ==
    /\ schema = "drizzle"
    /\ userData.id \in UserSlots
    /\ users' = [users EXCEPT ![userData.id] =
                    IF UserExists(userData.id)
                    THEN UpdateSetUser(@, userData @@ [updatedAt |-> today])
                    ELSE InsertUserRow(userData)]
    /\ users' # users
    /\ UNCHANGED <<audit_log, sessions, schema, today, books, loans, procs>>

(* The accounts storage.upsertUser is called with: a patron made staff, and
   an account that was not there, as staff or with the defaults. *)
UpsertUsers ==
    {[id |-> "p1", role |-> "staff", isActive |-> TRUE],
     [id |-> NoUser, role |-> "staff", isActive |-> TRUE],
     [id |-> NoUser]}

(* Who asks for a member update, and about whom: a patron, a member of
   staff, and the id that has an account only once upsertUser has added it. *)
MemberCallers == {"p1", "s1", NoUser}

MemberIdArgs == {"p1", NoUser}

(* The member requests, arriving at any time, also while others are under
   way. *)
NextMembers ==
    \/ Collected /\ \E p \in ProcIds, caller \in MemberCallers, id \in MemberIdArgs,
                        body \in MemberBodies : RouteUpdateMember(p, caller, id, body)
    \/ Collected /\ \E p \in ProcIds, caller \in MemberCallers, id \in MemberIdArgs :
          RouteDeactivateMember(p, caller, id)
    \/ \E p \in ProcIds : StorageUpdateMember(p)
    \/ \E userData \in UpsertUsers : StorageUpsertUser(userData)
    \/ Release

InitMembers == InitRoutes /\ loans = <<>> /\ books[1].total_copies = 1

SpecMembers == InitMembers /\ [][NextMembers]_vars

(* The loan routes while a role is changed: PUT /api/members/:id sent by
   the member of staff for p1, with a role in the body, and
   storage.upsertUser with a role, at any time, also between the two reads
   of a request under way: p1 is made staff, and patron again. *)
RoleBodies == {[role |-> r] : r \in {"staff", "patron"}}

RoleUpserts == {[id |-> "p1", role |-> "staff"], [id |-> "p1", role |-> "patron"]}

OwnershipCallers == {"p1", "s1"}

(* A body of POST /api/loans for a loan of today that is due tomorrow, with
   the id of p2 in it: the loan is p1's when p1 sends it as a patron. *)
OwnershipLoanBodies ==
    {[userId |-> "p2", bookId |-> 1, loanDate |-> StartDay, dueDate |-> StartDay + 1]}

NextOwnership ==
    \/ Collected /\ \E p \in ProcIds, caller \in OwnershipCallers,
                       body \in OwnershipLoanBodies : RouteCreateLoan(p, caller, body)
    \/ Collected /\ \E p \in ProcIds, caller \in OwnershipCallers, id \in LoanIdArgs :
          RouteReturn(p, caller, id)
    \/ Collected /\ \E p \in ProcIds, caller \in OwnershipCallers, id \in LoanIdArgs :
          RouteRenew(p, caller, id)
    \/ Collected /\ \E p \in ProcIds, body \in RoleBodies :
          RouteUpdateMember(p, "s1", "p1", body)
    \/ \E p \in ProcIds : RouteCreateLoan_GetBook(p)
    \/ \E p \in ProcIds : RouteReturn_GetLoan(p)
    \/ \E p \in ProcIds : RouteRenew_GetLoan(p)
    \/ \E p \in ProcIds : StorageCreateLoan_Insert(p)
    \/ \E p \in ProcIds : StorageCreateLoan_Update(p)
    \/ \E p \in ProcIds : StorageReturnBook_Loan(p)
    \/ \E p \in ProcIds : StorageReturnBook_Book(p)
    \/ \E p \in ProcIds : StorageRenewLoan(p)
    \/ \E p \in ProcIds : StorageUpdateMember(p)
    \/ \E userData \in RoleUpserts : StorageUpsertUser(userData)
    \/ Release

(* One copy of the book, and no loan yet. *)
InitOwnership == InitRoutes /\ loans = <<>> /\ books[1].total_copies = 1

SpecOwnership == InitOwnership /\ [][NextOwnership]_vars


(* C29: no member update asked by a user who is not staff changes any
   user's role or is_active, and such a user's requests change no member
   record but their own. *)
C29_PatronsKeepRoles ==
    [][\A p \in ProcIds :
         ( /\ StepOf(p) /\ procs'[p].op \in {"updateMember", "deactivateMember"}
           /\ procs[p].pc = "member"
           /\ procs[p].data.requestingUser.role # "staff" )
         => /\ \A u \in UserSlots :
                 /\ users'[u].role = users[u].role
                 /\ users'[u].is_active = users[u].is_active
                 /\ u # procs[p].data.requestingUser.id => users'[u] = users[u]]_vars

(* The patron p1 has changed their own record, and is a patron still. *)
C29_Witness ==
    \E p \in ProcIds :
        /\ procs[p].pc = "done" /\ procs[p].op = "updateMember" /\ procs[p].res = "ok"
        /\ procs[p].data.requestingUser.id = "p1"
        /\ procs[p].data.id = "p1"
        /\ users["p1"].membership_type = "premium"
        /\ users["p1"].role = "patron" /\ users["p1"].is_active

====
